---- MODULE Spec2Model ----
(***************************************************************************)
(* Model of drivers/mailbox/bcm2836/init.c: RpiqInitOperation and          *)
(* RpiSetDeviceMacAddress, together with the firmware peer that serves     *)
(* the mailbox property channel.                                           *)
(*                                                                         *)
(* A ULONG is a pair <<hi, lo>> of 16-bit halves, so that 32-bit           *)
(* arithmetic keeps its width and its wraparound.                          *)
(***************************************************************************)
EXTENDS Integers, Sequences, FiniteSets, TLC

VARIABLES
    pc,               \* position of the host thread
    calls,            \* number of RpiqInitOperation invocations so far
    PreviousState,    \* argument of the current / last invocation
    status,           \* RpiqInitOperation's status (its return value)
    macStatus,        \* RpiSetDeviceMacAddress's status (its return value)
    macAddrProperty,  \* the request buffer pointer: NULL or its address
    addrProperty,     \* physical address of the request buffer
    buffer,           \* contents of the request buffer
    bufState,         \* "none", "allocated" or "freed"
    retries,          \* remaining poll attempts
    macAddrStr,       \* the formatted MAC string
    mailboxWrite,     \* last value written to the doorbell register
    doorbell,         \* "empty" or "full": a written value not yet taken
    mailboxRead,      \* value the Read register returns
    registry,         \* NetworkAddress value in the registry
    peer,             \* the firmware's progress on the request
    engine,           \* classification of the protocol outcome
    trace,            \* history: externally visible operations, in order
    samples,          \* history: one record per poll sample
    lastSample,       \* history: the raw values the latest sample read
    regResults,       \* history: result of each registry write attempt
    enableResult,     \* history: what RpiqEnableInterrupts returned
    readAfterFree,    \* history: host read the buffer after releasing it
    peerAfterFree     \* history: peer accessed the buffer after release

vars == <<pc, calls, PreviousState, status, macStatus, macAddrProperty,
          addrProperty, buffer, bufState, retries, macAddrStr, mailboxWrite,
          doorbell, mailboxRead, registry, peer, engine, trace, samples,
          lastSample,
          regResults, enableResult, readAfterFree, peerAfterFree>>

\* Everything the MAC query and the interrupt enabling can touch.
protoVars == <<macStatus, macAddrProperty, addrProperty, buffer, bufState,
               retries, macAddrStr, mailboxWrite, doorbell, mailboxRead,
               registry, peer, engine, trace, samples, lastSample, regResults,
               enableResult, readAfterFree, peerAfterFree>>

----------------------------------------------------------------------------
\* Bounds of the model.

MaxCalls == 2

----------------------------------------------------------------------------
\* NTSTATUS values, as signed 32-bit integers.

STATUS_SUCCESS == 0

STATUS_UNSUCCESSFUL == -1073741823

STATUS_INSUFFICIENT_RESOURCES == -1073741670

STATUS_IO_TIMEOUT == -1073741643

STATUS_BUFFER_OVERFLOW == -2147483643

\* The status of a match with the success flag unset.
RejectedStatus == STATUS_UNSUCCESSFUL

\* The status of an exhausted retry budget.
TimedOutStatus == STATUS_UNSUCCESSFUL

NT_SUCCESS(s) == s >= 0

\* Statuses a collaborator (mailbox write, registry, interrupts) may return.
CollaboratorStatus == {STATUS_SUCCESS, STATUS_IO_TIMEOUT}

\* Value of a status variable that has not been assigned yet.
NoStatus == -1

----------------------------------------------------------------------------
\* 32-bit words.

Half == 65536

U32(hi, lo) == <<hi, lo>>

Zero32 == U32(0, 0)

Add32(a, b) ==
    LET lo == a[2] + b[2]
        hi == a[1] + b[1] + (lo \div Half)
    IN  U32(hi % Half, lo % Half)

MAILBOX_CHANNEL_MASK == 15

MAILBOX_CHANNEL_PROPERTY_ARM_VC == 8

\* 0xC0000000
OFFSET_DIRECT_SDRAM == U32(49152, 0)

\* 0x40000000
HEX_1_G == U32(16384, 0)

\* 0x80000000
RESPONSE_SUCCESS == U32(32768, 0)

\* Variant: a mask of three bits.
ClearChannel_ThreeBits(v) == U32(v[1], v[2] - (v[2] % 8))

\* v & ~MAILBOX_CHANNEL_MASK
ClearChannel(v) == U32(v[1], v[2] - (v[2] % (MAILBOX_CHANNEL_MASK + 1)))

\* Variant: | written for &, so that the test is always true.
ResponseSuccess_OrForAnd(v) == TRUE

\* v & RESPONSE_SUCCESS, as a truth value
ResponseSuccess(v) == v[1] >= RESPONSE_SUCCESS[1]

\* Variant: the physical address is handed over untranslated.
PeerAddress_Untranslated(a) == a

\* addrProperty.LowPart + OFFSET_DIRECT_SDRAM
PeerAddress(a) == Add32(a, OFFSET_DIRECT_SDRAM)

\* The doorbell value: (Value & ~MAILBOX_CHANNEL_MASK) | Channel
RpiqMailboxWriteValue(channel, value) ==
    LET m == ClearChannel(value) IN U32(m[1], m[2] + channel)

----------------------------------------------------------------------------
\* Formatting of the MAC address: L"%02X%02X%02X%02X%02X%02X".

HexDigits == <<"0", "1", "2", "3", "4", "5", "6", "7",
               "8", "9", "A", "B", "C", "D", "E", "F">>

\* Variant: %X for %02X, so a byte below 0x10 loses its leading zero.
Hex02X_NoPadding(b) ==
    IF b < 16 THEN HexDigits[b + 1]
    ELSE HexDigits[(b \div 16) + 1] \o HexDigits[(b % 16) + 1]

Hex02X(b) == HexDigits[(b \div 16) + 1] \o HexDigits[(b % 16) + 1]

FormatMac(m) ==
    Hex02X(m[1]) \o Hex02X(m[2]) \o Hex02X(m[3]) \o
    Hex02X(m[4]) \o Hex02X(m[5]) \o Hex02X(m[6])

\* WCHAR macAddrStr[13]
MacAddrStrSize == 13

----------------------------------------------------------------------------
\* Inputs.

WdfPowerDeviceD3Final == "WdfPowerDeviceD3Final"

PowerStates == {"WdfPowerDeviceD0", "WdfPowerDeviceD3", WdfPowerDeviceD3Final}

NULL == <<>>

\* Physical addresses MmAllocateContiguousNodeMemory may hand out
\* (0x00001000 and 0x3FFFF000, both below HEX_1_G).
AllocAddrs == {U32(0, 4096), U32(16383, 61440)}

\* Values the firmware may leave in the Read register once it has taken
\* the doorbell value w: w itself, w with channel 0, the address 16 bytes
\* further, or nothing.
ReadValues(w) == {w, ClearChannel(w), Add32(w, U32(0, 16)), Zero32}

ZeroMac == <<0, 0, 0, 0, 0, 0>>

\* Buffer contents the firmware may leave: RequestResponse 0x80000000
\* (success) or 0x80000001 (error) with some MAC bytes, or 0 (untouched).
Responses ==
    {[RequestResponse |-> RESPONSE_SUCCESS,
      MACAddress |-> <<170, 187, 204, 221, 238, 255>>],
     [RequestResponse |-> U32(32768, 1),
      MACAddress |-> <<0, 1, 10, 15, 16, 159>>],
     [RequestResponse |-> Zero32, MACAddress |-> ZeroMac]}

\* INIT_MAILBOX_GET_BOARD_MAC_ADDRESS: a request, with a zeroed value buffer.
InitMailboxGetBoardMacAddress ==
    [RequestResponse |-> Zero32, MACAddress |-> ZeroMac]

\* No sample has been taken yet.
NoSample == [read |-> Zero32, inspected |-> FALSE, response |-> Zero32]

IdlePeer == [accepted |-> FALSE, wrote |-> FALSE, echoed |-> FALSE]

----------------------------------------------------------------------------
\* History helpers.

RECURSIVE CountIn(_, _)
CountIn(seq, e) ==
    IF seq = <<>> THEN 0
    ELSE (IF Head(seq) = e THEN 1 ELSE 0) + CountIn(Tail(seq), e)

Count(e) == CountIn(trace, e)

polls == Len(samples)

----------------------------------------------------------------------------
Init ==
    /\ pc = "idle"
    /\ calls = 0
    /\ PreviousState = "none"
    /\ status = NoStatus
    /\ macStatus = NoStatus
    /\ macAddrProperty = NULL
    /\ addrProperty = Zero32
    /\ buffer = InitMailboxGetBoardMacAddress
    /\ bufState = "none"
    /\ retries = 0
    /\ macAddrStr = ""
    /\ mailboxWrite = Zero32
    /\ doorbell = "empty"
    /\ mailboxRead = Zero32
    /\ registry = ""
    /\ peer = IdlePeer
    /\ engine = "Idle"
    /\ trace = <<>>
    /\ samples = <<>>
    /\ lastSample = NoSample
    /\ regResults = <<>>
    /\ enableResult = NoStatus
    /\ readAfterFree = FALSE
    /\ peerAfterFree = FALSE

----------------------------------------------------------------------------
\* RpiqInitOperation.

\* Variant: the first-boot test compares with WdfPowerDeviceD3, so a resume
\* from D3 runs the whole initialisation again.
InitOperationNotFirstBoot_ComparesD3(prev) ==
    /\ pc = "returned"
    /\ calls < MaxCalls
    /\ calls' = calls + 1
    /\ PreviousState' = prev
    /\ IF prev # "WdfPowerDeviceD3"
       THEN status' = STATUS_SUCCESS /\ pc' = "returned"
       ELSE UNCHANGED status /\ pc' = "mac_alloc"
    /\ UNCHANGED protoVars

\* PreviousState # WdfPowerDeviceD3Final: log, status = STATUS_SUCCESS, End.
\* The framework passes such a state only on a later power-up of the device.
InitOperationNotFirstBoot(prev) ==
    /\ pc = "returned"
    /\ calls < MaxCalls
    /\ prev # WdfPowerDeviceD3Final
    /\ calls' = calls + 1
    /\ PreviousState' = prev
    /\ status' = STATUS_SUCCESS
    /\ pc' = "returned"
    /\ UNCHANGED protoVars

\* PreviousState = WdfPowerDeviceD3Final: enter RpiSetDeviceMacAddress.
\* The framework passes D3Final on the first power-up of a device.
InitOperationFirstBoot ==
    /\ pc = "idle"
    /\ calls < MaxCalls
    /\ calls' = calls + 1
    /\ PreviousState' = WdfPowerDeviceD3Final
    /\ pc' = "mac_alloc"
    /\ UNCHANGED <<status>>
    /\ UNCHANGED protoVars

\* Variant: a failed MAC query leaves through End with its status.
InitOperationEnableInterrupts_AbortsOnMacFailure(result) ==
    /\ pc = "enable"
    /\ IF NT_SUCCESS(macStatus)
       THEN /\ status' = result
            /\ enableResult' = result
            /\ trace' = Append(trace, "RpiqEnableInterrupts")
       ELSE /\ status' = macStatus
            /\ UNCHANGED <<enableResult, trace>>
    /\ pc' = "returned"
    /\ UNCHANGED <<calls, PreviousState, macStatus, macAddrProperty,
                   addrProperty, buffer, bufState, retries, macAddrStr,
                   mailboxWrite, doorbell, mailboxRead, registry, peer,
                   engine, samples, lastSample, regResults, readAfterFree,
                   peerAfterFree>>

\* Variant: the result of RpiqEnableInterrupts replaces the status only
\* when it is a failure, so the status of the MAC query survives.
InitOperationEnableInterrupts_KeepsMacStatus(result) ==
    /\ pc = "enable"
    /\ status' = IF NT_SUCCESS(result) THEN macStatus ELSE result
    /\ enableResult' = result
    /\ trace' = Append(trace, "RpiqEnableInterrupts")
    /\ pc' = "returned"
    /\ UNCHANGED <<calls, PreviousState, macStatus, macAddrProperty,
                   addrProperty, buffer, bufState, retries, macAddrStr,
                   mailboxWrite, doorbell, mailboxRead, registry, peer,
                   engine, samples, lastSample, regResults, readAfterFree,
                   peerAfterFree>>

\* status = RpiSetDeviceMacAddress(...) has returned; the failure is logged,
\* status = STATUS_SUCCESS; status = RpiqEnableInterrupts(...); return.
InitOperationEnableInterrupts(result) ==
    /\ pc = "enable"
    /\ LET afterMac == macStatus
           cleared  == STATUS_SUCCESS
       IN  /\ status' = result
           /\ enableResult' = result
    /\ trace' = Append(trace, "RpiqEnableInterrupts")
    /\ pc' = "returned"
    /\ UNCHANGED <<calls, PreviousState, macStatus, macAddrProperty,
                   addrProperty, buffer, bufState, retries, macAddrStr,
                   mailboxWrite, doorbell, mailboxRead, registry, peer,
                   engine, samples, lastSample, regResults, readAfterFree,
                   peerAfterFree>>

----------------------------------------------------------------------------
\* RpiSetDeviceMacAddress.

\* Variant: the NULL test sets the status but does not leave.
MacAllocate_NoGotoEnd(p) ==
    /\ pc = "mac_alloc"
    /\ trace' = Append(trace, "MmAllocateContiguousNodeMemory")
    /\ macAddrProperty' = p
    /\ macAddrStr' = ""
    /\ IF p = NULL
       THEN /\ macStatus' = STATUS_INSUFFICIENT_RESOURCES
            /\ engine' = "AllocationFailure"
            /\ UNCHANGED <<addrProperty, bufState>>
       ELSE /\ addrProperty' = p
            /\ bufState' = "allocated"
            /\ UNCHANGED <<macStatus, engine>>
    /\ pc' = "mac_submit"
    /\ UNCHANGED <<calls, PreviousState, status, buffer, retries,
                   mailboxWrite, doorbell, mailboxRead, registry, peer,
                   samples, lastSample, regResults, enableResult,
                   readAfterFree, peerAfterFree>>

\* MmAllocateContiguousNodeMemory; NULL gives STATUS_INSUFFICIENT_RESOURCES
\* and End, otherwise addrProperty = MmGetPhysicalAddress(macAddrProperty).
MacAllocate(p) ==
    /\ pc = "mac_alloc"
    /\ trace' = Append(trace, "MmAllocateContiguousNodeMemory")
    /\ macAddrProperty' = p
    /\ macAddrStr' = ""
    /\ IF p = NULL
       THEN /\ macStatus' = STATUS_INSUFFICIENT_RESOURCES
            /\ engine' = "AllocationFailure"
            /\ pc' = "mac_end"
            /\ UNCHANGED <<addrProperty, bufState>>
       ELSE /\ addrProperty' = p
            /\ bufState' = "allocated"
            /\ pc' = "mac_submit"
            /\ UNCHANGED <<macStatus, engine>>
    /\ UNCHANGED <<calls, PreviousState, status, buffer, retries,
                   mailboxWrite, doorbell, mailboxRead, registry, peer,
                   samples, lastSample, regResults, enableResult,
                   readAfterFree,
                   peerAfterFree>>

\* Variant: retries starts at 0, so the loop body is never entered.
MacSubmit_ZeroRetries(result) ==
    /\ pc = "mac_submit"
    /\ buffer' = InitMailboxGetBoardMacAddress
    /\ macStatus' = result
    /\ IF ~NT_SUCCESS(result)
       THEN /\ engine' = "SubmitFailure"
            /\ pc' = "mac_end"
            /\ UNCHANGED <<mailboxWrite, doorbell, trace, retries>>
       ELSE /\ mailboxWrite' =
                  RpiqMailboxWriteValue(MAILBOX_CHANNEL_PROPERTY_ARM_VC,
                                        PeerAddress(addrProperty))
            /\ doorbell' = "full"
            /\ trace' = Append(trace, "WriteDoorbell")
            /\ retries' = 0
            /\ engine' = "Submitted"
            /\ pc' = "mac_after_loop"
    /\ UNCHANGED <<calls, PreviousState, status, macAddrProperty,
                   addrProperty, bufState, macAddrStr, mailboxRead, registry,
                   peer, samples, lastSample, regResults, enableResult,
                   readAfterFree, peerAfterFree>>

\* INIT_MAILBOX_GET_BOARD_MAC_ADDRESS, then RpiqMailboxWrite on the property
\* channel with the translated address.  On failure: End.  On success the
\* doorbell holds the value, retries = 10 and the polling loop is entered.
MacSubmit(result) ==
    /\ pc = "mac_submit"
    /\ buffer' = InitMailboxGetBoardMacAddress
    /\ macStatus' = result
    /\ IF ~NT_SUCCESS(result)
       THEN /\ engine' = "SubmitFailure"
            /\ pc' = "mac_end"
            /\ UNCHANGED <<mailboxWrite, doorbell, trace, retries>>
       ELSE /\ mailboxWrite' =
                  RpiqMailboxWriteValue(MAILBOX_CHANNEL_PROPERTY_ARM_VC,
                                        PeerAddress(addrProperty))
            /\ doorbell' = "full"
            /\ trace' = Append(trace, "WriteDoorbell")
            /\ retries' = 10
            /\ engine' = "Submitted"
            /\ pc' = "mac_poll"
    /\ UNCHANGED <<calls, PreviousState, status, macAddrProperty,
                   addrProperty, bufState, macAddrStr, mailboxRead, registry,
                   peer, samples, lastSample, regResults, enableResult,
                   readAfterFree,
                   peerAfterFree>>

\* Variant: a match with the flag unset falls through to the delay and is
\* sampled again.
MacPoll_RetriesUnsetFlag ==
    /\ pc = "mac_poll"
    /\ retries > 0
    /\ LET reg   == ClearChannel(mailboxRead)
           match == reg = PeerAddress(addrProperty)
           flag  == ResponseSuccess(buffer.RequestResponse)
       IN  /\ trace' = trace \o <<"ReadStatus", "ReadRead">>
           /\ samples' = Append(samples,
                  [match |-> match, flag |-> match /\ flag,
                   retries |-> retries])
           /\ lastSample' =
                  [read |-> mailboxRead, inspected |-> match,
                   response |-> IF match THEN buffer.RequestResponse
                                ELSE Zero32]
           /\ readAfterFree' = (readAfterFree \/ (match /\ bufState = "freed"))
           /\ pc' = IF match /\ flag THEN "mac_after_loop" ELSE "mac_delay"
    /\ UNCHANGED <<calls, PreviousState, status, macStatus, macAddrProperty,
                   addrProperty, buffer, bufState, retries, macAddrStr,
                   mailboxWrite, doorbell, mailboxRead, registry, peer,
                   engine, regResults, enableResult, peerAfterFree>>

\* Variant: the Read register is read before the Status register.
MacPoll_ReadBeforeStatus ==
    /\ pc = "mac_poll"
    /\ retries > 0
    /\ LET reg   == ClearChannel(mailboxRead)
           match == reg = PeerAddress(addrProperty)
           flag  == ResponseSuccess(buffer.RequestResponse)
       IN  /\ trace' = trace \o <<"ReadRead", "ReadStatus">>
           /\ samples' = Append(samples,
                  [match |-> match, flag |-> match /\ flag,
                   retries |-> retries])
           /\ lastSample' =
                  [read |-> mailboxRead, inspected |-> match,
                   response |-> IF match THEN buffer.RequestResponse
                                ELSE Zero32]
           /\ readAfterFree' = (readAfterFree \/ (match /\ bufState = "freed"))
           /\ IF match
              THEN IF flag
                   THEN /\ pc' = "mac_after_loop"
                        /\ UNCHANGED <<macStatus, engine>>
                   ELSE /\ macStatus' = RejectedStatus
                        /\ engine' = "Rejected"
                        /\ pc' = "mac_end"
              ELSE /\ pc' = "mac_delay"
                   /\ UNCHANGED <<macStatus, engine>>
    /\ UNCHANGED <<calls, PreviousState, status, macAddrProperty,
                   addrProperty, buffer, bufState, retries, macAddrStr,
                   mailboxWrite, doorbell, mailboxRead, registry, peer,
                   regResults, enableResult, peerAfterFree>>

\* One pass of the loop body up to the delay: read Status, read Read with
\* the channel bits cleared, compare with the peer address; on a match look
\* at RequestResponse: break if RESPONSE_SUCCESS is set, otherwise
\* STATUS_UNSUCCESSFUL and End.
MacPoll ==
    /\ pc = "mac_poll"
    /\ retries > 0
    /\ LET reg   == ClearChannel(mailboxRead)
           match == reg = PeerAddress(addrProperty)
           flag  == ResponseSuccess(buffer.RequestResponse)
       IN  /\ trace' = trace \o <<"ReadStatus", "ReadRead">>
           /\ samples' = Append(samples,
                  [match |-> match, flag |-> match /\ flag,
                   retries |-> retries])
           /\ lastSample' =
                  [read |-> mailboxRead, inspected |-> match,
                   response |-> IF match THEN buffer.RequestResponse
                                ELSE Zero32]
           /\ readAfterFree' = (readAfterFree \/ (match /\ bufState = "freed"))
           /\ IF match
              THEN IF flag
                   THEN /\ pc' = "mac_after_loop"
                        /\ UNCHANGED <<macStatus, engine>>
                   ELSE /\ macStatus' = RejectedStatus
                        /\ engine' = "Rejected"
                        /\ pc' = "mac_end"
              ELSE /\ pc' = "mac_delay"
                   /\ UNCHANGED <<macStatus, engine>>
    /\ UNCHANGED <<calls, PreviousState, status, macAddrProperty,
                   addrProperty, buffer, bufState, retries, macAddrStr,
                   mailboxWrite, doorbell, mailboxRead, registry, peer,
                   regResults, enableResult, peerAfterFree>>

\* Variant: retries is decremented twice per pass.
MacDelay_DecrementsTwice ==
    /\ pc = "mac_delay"
    /\ trace' = Append(trace, "KeDelayExecutionThread")
    /\ retries' = IF retries >= 2 THEN retries - 2 ELSE 0
    /\ pc' = IF retries' > 0 THEN "mac_poll" ELSE "mac_after_loop"
    /\ UNCHANGED <<calls, PreviousState, status, macStatus, macAddrProperty,
                   addrProperty, buffer, bufState, macAddrStr, mailboxWrite,
                   doorbell, mailboxRead, registry, peer, engine, samples,
                   lastSample, regResults, enableResult, readAfterFree,
                   peerAfterFree>>

\* Variant: the wait never returns.
MacDelay_NeverReturns ==
    /\ pc = "mac_delay"
    /\ UNCHANGED vars

\* KeDelayExecutionThread; --retries; then the loop condition retries > 0.
MacDelay ==
    /\ pc = "mac_delay"
    /\ trace' = Append(trace, "KeDelayExecutionThread")
    /\ retries' = retries - 1
    /\ pc' = IF retries' > 0 THEN "mac_poll" ELSE "mac_after_loop"
    /\ UNCHANGED <<calls, PreviousState, status, macStatus, macAddrProperty,
                   addrProperty, buffer, bufState, macAddrStr, mailboxWrite,
                   doorbell, mailboxRead, registry, peer, engine, samples,
                   lastSample,
                   regResults, enableResult, readAfterFree, peerAfterFree>>

\* Variant: the exhaustion test is retries <= 1.
MacAfterLoop_OffByOne ==
    /\ pc = "mac_after_loop"
    /\ IF retries <= 1
       THEN /\ macStatus' = TimedOutStatus
            /\ engine' = "TimedOut"
            /\ pc' = "mac_end"
       ELSE /\ engine' = "Completed"
            /\ pc' = "mac_print"
            /\ UNCHANGED macStatus
    /\ UNCHANGED <<calls, PreviousState, status, macAddrProperty,
                   addrProperty, buffer, bufState, retries, macAddrStr,
                   mailboxWrite, doorbell, mailboxRead, registry, peer,
                   trace, samples, lastSample, regResults, enableResult,
                   readAfterFree, peerAfterFree>>

\* if (retries == 0) { status = STATUS_UNSUCCESSFUL; goto End; }
MacAfterLoop ==
    /\ pc = "mac_after_loop"
    /\ IF retries = 0
       THEN /\ macStatus' = TimedOutStatus
            /\ engine' = "TimedOut"
            /\ pc' = "mac_end"
       ELSE /\ engine' = "Completed"
            /\ pc' = "mac_print"
            /\ UNCHANGED macStatus
    /\ UNCHANGED <<calls, PreviousState, status, macAddrProperty,
                   addrProperty, buffer, bufState, retries, macAddrStr,
                   mailboxWrite, doorbell, mailboxRead, registry, peer,
                   trace, samples, lastSample, regResults, enableResult,
                   readAfterFree,
                   peerAfterFree>>

\* RtlStringCchPrintfW of the six MAC bytes into macAddrStr[13].
MacPrint ==
    /\ pc = "mac_print"
    /\ LET str  == FormatMac(buffer.MACAddress)
           fits == Len(str) + 1 <= MacAddrStrSize
       IN  /\ macAddrStr' = IF fits THEN str ELSE ""
           /\ macStatus' = IF fits THEN STATUS_SUCCESS
                           ELSE STATUS_BUFFER_OVERFLOW
           /\ pc' = IF fits THEN "mac_regwrite1" ELSE "mac_end"
    /\ readAfterFree' = (readAfterFree \/ bufState = "freed")
    /\ UNCHANGED <<calls, PreviousState, status, macAddrProperty,
                   addrProperty, buffer, bufState, retries, mailboxWrite,
                   doorbell, mailboxRead, registry, peer, engine, trace,
                   samples, lastSample, regResults, enableResult,
                   peerAfterFree>>

\* One call of RtlWriteRegistryValue(NetworkAddress, macAddrStr).
RtlWriteRegistryValue(result) ==
    /\ macStatus' = result
    /\ trace' = Append(trace, "RtlWriteRegistryValue")
    /\ regResults' = Append(regResults, result)
    /\ registry' = IF NT_SUCCESS(result) THEN macAddrStr ELSE registry

\* Variant: the goto End of the first write is not commented out.
MacRegWrite1_GotoEnd(result) ==
    /\ pc = "mac_regwrite1"
    /\ RtlWriteRegistryValue(result)
    /\ pc' = IF NT_SUCCESS(result) THEN "mac_regwrite2" ELSE "mac_end"
    /\ UNCHANGED <<calls, PreviousState, status, macAddrProperty,
                   addrProperty, buffer, bufState, retries, macAddrStr,
                   mailboxWrite, doorbell, mailboxRead, peer, engine,
                   samples, lastSample, enableResult, readAfterFree,
                   peerAfterFree>>

\* First registry write: a failure is logged, execution continues.
MacRegWrite1(result) ==
    /\ pc = "mac_regwrite1"
    /\ RtlWriteRegistryValue(result)
    /\ pc' = "mac_regwrite2"
    /\ UNCHANGED <<calls, PreviousState, status, macAddrProperty,
                   addrProperty, buffer, bufState, retries, macAddrStr,
                   mailboxWrite, doorbell, mailboxRead, peer, engine,
                   samples, lastSample, enableResult, readAfterFree,
                   peerAfterFree>>

\* Second registry write: a failure is logged and goes to End, as does
\* falling off the end of the function body.
MacRegWrite2(result) ==
    /\ pc = "mac_regwrite2"
    /\ RtlWriteRegistryValue(result)
    /\ pc' = "mac_end"
    /\ UNCHANGED <<calls, PreviousState, status, macAddrProperty,
                   addrProperty, buffer, bufState, retries, macAddrStr,
                   mailboxWrite, doorbell, mailboxRead, peer, engine,
                   samples, lastSample, enableResult, readAfterFree,
                   peerAfterFree>>

\* Variant: the buffer is released on the success path only.
MacEnd_FreesOnSuccessOnly ==
    /\ pc = "mac_end"
    /\ IF macAddrProperty # NULL /\ NT_SUCCESS(macStatus)
       THEN /\ trace' = Append(trace, "MmFreeContiguousMemory")
            /\ bufState' = "freed"
       ELSE UNCHANGED <<trace, bufState>>
    /\ pc' = "enable"
    /\ UNCHANGED <<calls, PreviousState, status, macStatus, macAddrProperty,
                   addrProperty, buffer, retries, macAddrStr, mailboxWrite,
                   doorbell, mailboxRead, registry, peer, engine, samples,
                   lastSample, regResults, enableResult, readAfterFree,
                   peerAfterFree>>

\* End: if (macAddrProperty) MmFreeContiguousMemory(macAddrProperty);
\* return status.
MacEnd ==
    /\ pc = "mac_end"
    /\ IF macAddrProperty # NULL
       THEN /\ trace' = Append(trace, "MmFreeContiguousMemory")
            /\ bufState' = "freed"
       ELSE UNCHANGED <<trace, bufState>>
    /\ pc' = "enable"
    /\ UNCHANGED <<calls, PreviousState, status, macStatus, macAddrProperty,
                   addrProperty, buffer, retries, macAddrStr, mailboxWrite,
                   doorbell, mailboxRead, registry, peer, engine, samples,
                   lastSample,
                   regResults, enableResult, readAfterFree, peerAfterFree>>

----------------------------------------------------------------------------
\* The firmware.

\* The firmware takes the request out of the doorbell.
PeerAccept ==
    /\ doorbell = "full"
    /\ doorbell' = "empty"
    /\ peer' = [accepted |-> TRUE, wrote |-> FALSE, echoed |-> FALSE]
    /\ UNCHANGED <<pc, calls, PreviousState, status, macStatus,
                   macAddrProperty, addrProperty, buffer, bufState, retries,
                   macAddrStr, mailboxWrite, mailboxRead, registry, engine,
                   trace, samples, lastSample, regResults, enableResult,
                   readAfterFree,
                   peerAfterFree>>

\* The firmware stores a response in the buffer it was
\* given, whatever the host has done with that memory in the meantime.
PeerWriteResponse(response) ==
    /\ peer.accepted
    /\ buffer' = response
    /\ peer' = [peer EXCEPT !.wrote = TRUE]
    /\ peerAfterFree' = (peerAfterFree \/ bufState = "freed")
    /\ UNCHANGED <<pc, calls, PreviousState, status, macStatus,
                   macAddrProperty, addrProperty, bufState, retries,
                   macAddrStr, mailboxWrite, doorbell, mailboxRead, registry,
                   engine, trace, samples, lastSample, regResults,
                   enableResult,
                   readAfterFree>>

\* The firmware puts a value in the Read register.
PeerEcho(v) ==
    /\ peer.accepted
    /\ mailboxRead' = v
    /\ peer' = [peer EXCEPT !.echoed =
                   @ \/ ClearChannel(v) = ClearChannel(mailboxWrite)]
    /\ UNCHANGED <<pc, calls, PreviousState, status, macStatus,
                   macAddrProperty, addrProperty, buffer, bufState, retries,
                   macAddrStr, mailboxWrite, doorbell, registry, engine,
                   trace, samples, lastSample, regResults, enableResult,
                   readAfterFree,
                   peerAfterFree>>

----------------------------------------------------------------------------
HostStep ==
    \/ InitOperationFirstBoot
    \/ \E p \in AllocAddrs \cup {NULL} : MacAllocate(p)
    \/ \E r \in CollaboratorStatus : MacSubmit(r)
    \/ MacPoll
    \/ MacDelay
    \/ MacAfterLoop
    \/ MacPrint
    \/ \E r \in CollaboratorStatus : MacRegWrite1(r)
    \/ \E r \in CollaboratorStatus : MacRegWrite2(r)
    \/ MacEnd
    \/ \E r \in CollaboratorStatus : InitOperationEnableInterrupts(r)

PeerStep ==
    \/ PeerAccept
    \/ \E r \in Responses : PeerWriteResponse(r)
    \/ \E v \in ReadValues(mailboxWrite) : PeerEcho(v)

Next ==
    \/ \E prev \in PowerStates : InitOperationNotFirstBoot(prev)
    \/ HostStep
    \/ PeerStep

Spec == Init /\ [][Next]_vars

\* Once entered, RpiqInitOperation keeps running: every call it makes
\* returns (the delay is a timed wait, the collaborators are synchronous).
\* Nothing is assumed of the firmware.
LiveSpec == Spec /\ WF_vars(HostStep)

\* A firmware that keeps to the protocol: it answers a request once, stores
\* the response first and then echoes the doorbell value, after any delay.
OrderlyPeerWriteResponse(response) ==
    /\ ~peer.wrote
    /\ PeerWriteResponse(response)

OrderlyPeerEcho ==
    /\ peer.wrote
    /\ ~peer.echoed
    /\ PeerEcho(mailboxWrite)

OrderlyPeerStep ==
    \/ PeerAccept
    \/ \E r \in Responses : OrderlyPeerWriteResponse(r)
    \/ OrderlyPeerEcho

OrderlyNext ==
    \/ \E prev \in PowerStates : InitOperationNotFirstBoot(prev)
    \/ HostStep
    \/ OrderlyPeerStep

OrderlySpec == Init /\ [][OrderlyNext]_vars

----------------------------------------------------------------------------
\* The address arithmetic on its own: the query starts with a buffer at any
\* of a range of physical addresses, submits, and takes one sample of a
\* Read register that holds any of a range of values.

\* Page-aligned physical addresses below HEX_1_G, the lowest and the
\* highest included (0x00001000 ... 0x3FFFF000).
HostAddrs ==
    {U32(0, 4096), U32(0, 61440), U32(1, 0), U32(4095, 61440), U32(4096, 0),
     U32(16383, 0), U32(16383, 61440)}

RECURSIVE Pow2(_)
Pow2(k) == IF k = 0 THEN 1 ELSE 2 * Pow2(k - 1)

FlipHalf(h, k) ==
    IF (h \div Pow2(k)) % 2 = 1 THEN h - Pow2(k) ELSE h + Pow2(k)

\* v with bit k (0..31) inverted.
FlipBit(v, k) ==
    IF k < 16 THEN U32(v[1], FlipHalf(v[2], k))
    ELSE U32(FlipHalf(v[1], k - 16), v[2])

\* The doorbell value w with each value of the low four bits, and with each
\* single bit above them inverted, under three values of the low four bits.
TestReads(w) ==
    LET base == ClearChannel(w)
        Low(n) == U32(base[1], base[2] + n)
    IN  {Low(n) : n \in 0..15} \cup
        {FlipBit(Low(n), k) : n \in {0, 8, 15}, k \in 4..31}

AddressInit ==
    /\ pc = "mac_submit"
    /\ calls = 1
    /\ PreviousState = WdfPowerDeviceD3Final
    /\ status = NoStatus
    /\ macStatus = NoStatus
    /\ macAddrProperty \in HostAddrs
    /\ addrProperty = macAddrProperty
    /\ buffer = InitMailboxGetBoardMacAddress
    /\ bufState = "allocated"
    /\ retries = 0
    /\ macAddrStr = ""
    /\ mailboxWrite = Zero32
    /\ doorbell = "empty"
    /\ mailboxRead = Zero32
    /\ registry = ""
    /\ peer = IdlePeer
    /\ engine = "Idle"
    /\ trace = <<"MmAllocateContiguousNodeMemory">>
    /\ samples = <<>>
    /\ lastSample = NoSample
    /\ regResults = <<>>
    /\ enableResult = NoStatus
    /\ readAfterFree = FALSE
    /\ peerAfterFree = FALSE

\* The firmware sets the Read register before the sample is taken.
AddressEcho(v) ==
    /\ pc = "mac_poll"
    /\ PeerEcho(v)

AddressNext ==
    \/ \E r \in CollaboratorStatus : MacSubmit(r)
    \/ PeerAccept
    \/ \E r \in Responses : PeerWriteResponse(r)
    \/ \E v \in TestReads(mailboxWrite) : AddressEcho(v)
    \/ MacPoll

AddressSpec == AddressInit /\ [][AddressNext]_vars

TypeOK ==
    /\ pc \in {"idle", "mac_alloc", "mac_submit", "mac_poll", "mac_delay",
               "mac_after_loop", "mac_print", "mac_regwrite1",
               "mac_regwrite2", "mac_end", "enable", "returned"}
    /\ retries \in 0..10
    /\ bufState \in {"none", "allocated", "freed"}
    /\ engine \in {"Idle", "AllocationFailure", "SubmitFailure", "Submitted",
                   "Completed", "TimedOut", "Rejected"}

----------------------------------------------------------------------------
\* Vocabulary of the properties.

EvAlloc    == "MmAllocateContiguousNodeMemory"
EvDoorbell == "WriteDoorbell"
EvStatus   == "ReadStatus"
EvRead     == "ReadRead"
EvDelay    == "KeDelayExecutionThread"
EvRegistry == "RtlWriteRegistryValue"
EvFree     == "MmFreeContiguousMemory"
EvEnable   == "RpiqEnableInterrupts"

delays == Count(EvDelay)

IsPollEvent(e) == e \in {EvStatus, EvRead, EvDelay}

\* The register reads and delays of the polling loop, in order.
PollTrace == SelectSeq(trace, IsPollEvent)

RECURSIVE Repeat(_, _)
Repeat(pattern, n) == IF n = 0 THEN <<>> ELSE pattern \o Repeat(pattern, n - 1)

Terminal == {"AllocationFailure", "SubmitFailure", "TimedOut", "Rejected",
             "Completed"}

NoMatch == \A i \in 1..polls : ~samples[i].match

\* RpiSetDeviceMacAddress has returned to RpiqInitOperation.
MacReturned == pc \in {"enable", "returned"} /\ engine # "Idle"

\* The cold-boot invocation of RpiqInitOperation has returned.
FirstBootReturned == pc = "returned" /\ engine # "Idle"

----------------------------------------------------------------------------
\* C1: a call of RpiqInitOperation with a previous state other than
\* WdfPowerDeviceD3Final returns STATUS_SUCCESS in that very step and leaves
\* the buffer, the registers, the registry, the interrupt state and the
\* record of protocol operations unchanged.
C1_NotFirstBootIsNoOp ==
    [][(calls' # calls /\ PreviousState' # WdfPowerDeviceD3Final) =>
         (/\ pc' = "returned"
          /\ status' = STATUS_SUCCESS
          /\ UNCHANGED protoVars)]_vars

\* A warm call made after the cold boot, whose interrupt enabling had failed.
C1_Witness ==
    /\ pc = "returned"
    /\ PreviousState \in PowerStates \ {WdfPowerDeviceD3Final}
    /\ engine = "Completed"
    /\ enableResult = STATUS_IO_TIMEOUT
    /\ status = STATUS_SUCCESS

\* C2: on a cold boot RpiqEnableInterrupts is called exactly once whatever
\* the outcome of the MAC query, and only once the query has returned:
\* the outcome is terminal, the buffer is no longer allocated and the call
\* is the last operation of the invocation.
C2_EnableInterruptsExactlyOnce ==
    /\ Count(EvEnable) <= 1
    /\ FirstBootReturned => Count(EvEnable) = 1
    /\ Count(EvEnable) = 1 =>
          /\ pc = "returned"
          /\ engine \in Terminal
          /\ bufState # "allocated"
          /\ trace[Len(trace)] = EvEnable
    /\ pc = "enable" => engine \in Terminal /\ bufState # "allocated"

C2_Witness ==
    /\ pc = "returned"
    /\ PreviousState = WdfPowerDeviceD3Final
    /\ engine = "TimedOut"
    /\ Count(EvEnable) = 1

\* C3: the value a cold-boot call returns is the result of
\* RpiqEnableInterrupts, never that of the MAC query.
C3_ReturnsEnableInterruptsResult ==
    (pc = "returned" /\ PreviousState = WdfPowerDeviceD3Final) =>
        /\ enableResult \in CollaboratorStatus
        /\ status = enableResult
        /\ (NT_SUCCESS(enableResult) => status = STATUS_SUCCESS)

\* The MAC query failed, the interrupts were enabled: success.
C3_Witness ==
    /\ pc = "returned"
    /\ PreviousState = WdfPowerDeviceD3Final
    /\ ~NT_SUCCESS(macStatus)
    /\ enableResult = STATUS_SUCCESS
    /\ status = STATUS_SUCCESS

\* C4: when no sample matches, the loop takes exactly ten samples, each
\* followed by a delay, and ends in TimedOut with a failure status and no
\* registry write; there is never an eleventh sample.
C4_TimeoutAfterTenSamples ==
    /\ polls <= 10
    /\ delays <= 10
    /\ (NoMatch /\ polls > 0 /\ engine # "Submitted") => engine = "TimedOut"
    /\ (NoMatch /\ polls = 10 /\ pc # "mac_delay") =>
          /\ delays = 10
          /\ pc = "mac_after_loop" \/ engine = "TimedOut"
    /\ engine = "TimedOut" =>
          /\ NoMatch
          /\ polls = 10
          /\ PollTrace = Repeat(<<EvStatus, EvRead, EvDelay>>, 10)
          /\ ~NT_SUCCESS(macStatus)
          /\ Count(EvRegistry) = 0
          /\ registry = ""

C4_Witness ==
    /\ engine = "TimedOut"
    /\ pc = "returned"
    /\ polls = 10
    /\ delays = 10

\* C5: a sample that matches with the success flag set is the last sample;
\* if it is the Nth, N is in 1..10, there were N samples and N-1 delays and
\* the engine is Completed (the tenth sample included).
C5_CompletedOnNthSample ==
    /\ \A i \in 1..polls :
          (samples[i].match /\ samples[i].flag) =>
              /\ i = polls
              /\ delays = i - 1
              /\ \A j \in 1..(i - 1) : ~samples[j].match
              /\ PollTrace = Repeat(<<EvStatus, EvRead, EvDelay>>, i - 1)
                                \o <<EvStatus, EvRead>>
              /\ IF pc = "mac_after_loop" THEN engine = "Submitted"
                 ELSE engine = "Completed"
    /\ engine = "Completed" =>
          /\ polls \in 1..10
          /\ samples[polls].match /\ samples[polls].flag

\* The match came on the last attempt of the budget.
C5_Witness ==
    /\ engine = "Completed"
    /\ polls = 10
    /\ delays = 9
    /\ pc = "returned"

\* C6: Completed only after a sample whose Read value, channel bits
\* cleared, was the peer address of the buffer while bit 31 of
\* RequestResponse was set; Rejected only after a sample that matched.
C6_CompletedNeedsSuccessBit ==
    /\ engine = "Completed" =>
          /\ polls >= 1
          /\ lastSample.inspected
          /\ lastSample.read[1] = PeerAddress(addrProperty)[1]
          /\ lastSample.read[2] \div 16 = PeerAddress(addrProperty)[2] \div 16
          /\ lastSample.response[1] \div 32768 = 1
    /\ engine = "Rejected" =>
          /\ polls >= 1
          /\ lastSample.inspected
          /\ lastSample.read[1] = PeerAddress(addrProperty)[1]
          /\ lastSample.read[2] \div 16 = PeerAddress(addrProperty)[2] \div 16

\* Completed on a response code that has bit 31 and other bits set.
C6_Witness ==
    /\ engine = "Completed"
    /\ lastSample.response = U32(32768, 1)
    /\ lastSample.read[2] % 16 = 0

\* C7: a sample that matches with the success flag unset is the last
\* operation of the query but for the release of the buffer: the engine is
\* Rejected, with no later sample, delay or registry write, whatever the
\* firmware does afterwards.  A sample that does not match is followed by a
\* delay and, while attempts remain, by the next sample; it never leaves
\* the engine Completed or Rejected.
C7_RejectedAtOnceMismatchRetried ==
    /\ \A i \in 1..polls :
          (samples[i].match /\ ~samples[i].flag) =>
              /\ i = polls
              /\ engine = "Rejected"
              /\ pc \in {"mac_end", "enable", "returned"}
              /\ PollTrace = Repeat(<<EvStatus, EvRead, EvDelay>>, i - 1)
                                \o <<EvStatus, EvRead>>
              /\ Count(EvRegistry) = 0
              /\ registry = ""
    /\ \A i \in 1..polls :
          ~samples[i].match =>
              /\ pc = "mac_delay" \/ delays >= i
              /\ Len(PollTrace) >= 3 * i => PollTrace[3 * i] = EvDelay
              /\ i < polls \/ engine \notin {"Completed", "Rejected"}
              /\ (i = polls /\ i < 10 /\ pc # "mac_delay") => pc = "mac_poll"

\* Rejected with attempts left, and the firmware set the flag afterwards.
C7_Witness ==
    /\ engine = "Rejected"
    /\ polls < 10
    /\ pc = "returned"
    /\ buffer.RequestResponse = RESPONSE_SUCCESS
    /\ ClearChannel(mailboxRead) = PeerAddress(addrProperty)

\* C8: whatever the firmware does, a cold-boot call returns, and the MAC
\* query takes at most ten samples and ten delays on the way.
C8_ColdBootReturns ==
    /\ [](polls <= 10 /\ delays <= 10)
    /\ (pc = "mac_alloc") ~> (pc = "returned")

\* The call returned although the firmware never took the request.
C8_Witness ==
    /\ pc = "returned"
    /\ doorbell = "full"
    /\ ~peer.accepted
    /\ polls = 10

\* C9: an allocated buffer is released exactly once before
\* RpiSetDeviceMacAddress returns, never before the engine has reached a
\* terminal outcome, and the host does not read it after the release.
C9_BufferReleasedExactlyOnce ==
    /\ Count(EvFree) <= 1
    /\ (MacReturned /\ macAddrProperty # NULL) =>
          Count(EvFree) = 1 /\ bufState = "freed"
    /\ Count(EvFree) = 1 =>
          /\ bufState = "freed"
          /\ engine \in Terminal \ {"AllocationFailure"}
          /\ pc \in {"enable", "returned"}
    /\ bufState = "freed" => Count(EvFree) = 1
    /\ ~readAfterFree

\* Released after both registry writes failed.
C9_Witness ==
    /\ pc = "enable"
    /\ engine = "Completed"
    /\ regResults = <<STATUS_IO_TIMEOUT, STATUS_IO_TIMEOUT>>
    /\ bufState = "freed"
    /\ Count(EvFree) = 1

\* C10: after a failed allocation nothing but the interrupt enabling
\* happens: no doorbell write, register read, delay, registry write or
\* release; the query returns STATUS_INSUFFICIENT_RESOURCES and the
\* invocation goes on to RpiqEnableInterrupts.
C10_AllocationFailureAborts ==
    engine = "AllocationFailure" =>
        /\ macAddrProperty = NULL
        /\ macStatus = STATUS_INSUFFICIENT_RESOURCES
        /\ pc \in {"mac_end", "enable", "returned"}
        /\ bufState = "none"
        /\ samples = <<>>
        /\ registry = ""
        /\ \A i \in 1..Len(trace) : trace[i] \in {EvAlloc, EvEnable}
        /\ pc = "returned" => Count(EvEnable) = 1

C10_Witness ==
    /\ engine = "AllocationFailure"
    /\ pc = "returned"
    /\ Count(EvEnable) = 1
    /\ Len(trace) = 2

\* The text expected for the MAC addresses the firmware may deliver.
ExpectedMacText(m) ==
    CASE m = <<170, 187, 204, 221, 238, 255>> -> "AABBCCDDEEFF"
      [] m = <<0, 1, 10, 15, 16, 159>>        -> "00010A0F109F"
      [] m = ZeroMac                          -> "000000000000"

\* C11: the registry is written only once the engine is Completed, and the
\* value written is the text of the six MAC bytes found in the buffer, in
\* order, two uppercase hexadecimal digits each, twelve characters.
C11_RegistryHoldsMacText ==
    [][/\ (pc = "mac_print" /\ pc' # "mac_print") =>
              /\ macAddrStr' = ExpectedMacText(buffer.MACAddress)
              /\ Len(macAddrStr') = 12
       /\ Len(regResults') > Len(regResults) =>
              /\ engine = "Completed"
              /\ registry' \in {registry, macAddrStr}
       /\ registry' # registry =>
              /\ Len(regResults') > Len(regResults)
              /\ registry' = macAddrStr
              /\ Len(registry') = 12
       /\ engine' \in Terminal \ {"Completed"} =>
              regResults' = <<>> /\ registry' = ""]_vars

\* A MAC address with bytes below 0x10 has reached the registry.
C11_Witness ==
    /\ engine = "Completed"
    /\ registry = "00010A0F109F"
    /\ buffer.MACAddress = <<0, 1, 10, 15, 16, 159>>

\* The firmware has taken the request and has not finished answering it.
InFlight == peer.accepted /\ ~(peer.wrote /\ peer.echoed)

\* C12: the buffer is never released while the request is in flight, so
\* the firmware never touches the buffer after its release.
C12_NoReleaseInFlight ==
    /\ ~(bufState = "freed" /\ InFlight)
    /\ ~peerAfterFree

\* C13 as stated: the submit never fails; a query that got its buffer
\* always takes at least one sample.
C13_SubmitNeverFails ==
    /\ engine # "SubmitFailure"
    /\ (MacReturned /\ engine # "AllocationFailure") => polls >= 1

\* C13, amended: a failure status of RpiqMailboxWrite ends the query before
\* polling, with that status; a successful submit enters the loop with ten
\* attempts and the engine takes at least one sample; a query that ends
\* without a sample ended by allocation failure or by submit failure.
C13_PollsUnlessAllocationOrSubmitFails ==
    /\ engine = "SubmitFailure" =>
          /\ ~NT_SUCCESS(macStatus)
          /\ macStatus \in CollaboratorStatus
          /\ bufState # "none"
          /\ polls = 0
          /\ pc \in {"mac_end", "enable", "returned"}
    /\ (engine = "Submitted" /\ polls = 0) => pc = "mac_poll" /\ retries = 10
    /\ engine \in {"Completed", "TimedOut", "Rejected"} => polls >= 1
    /\ (MacReturned /\ polls = 0) =>
          engine \in {"AllocationFailure", "SubmitFailure"}

\* The query ended on a failed submit, and its buffer was released.
C13_Witness ==
    /\ engine = "SubmitFailure"
    /\ pc = "returned"
    /\ macStatus = STATUS_IO_TIMEOUT
    /\ bufState = "freed"
    /\ polls = 0

\* C14: the status returned after a timeout is not the status returned
\* after a rejection, so the caller can tell the two outcomes apart.
C14_TimeoutDistinctFromRejection ==
    /\ (MacReturned /\ engine = "TimedOut") => macStatus # RejectedStatus
    /\ (MacReturned /\ engine = "Rejected") => macStatus # TimedOutStatus

\* C15: after Completed the MAC string is written twice; the second write
\* follows the first whatever its result, the status of the query is the
\* result of the second write, the registry holds the string as soon as
\* one write succeeded, and in every case the buffer is released and the
\* invocation goes on to enable the interrupts.
C15_TwoRegistryWrites ==
    /\ Len(regResults) <= 2
    /\ Count(EvRegistry) = Len(regResults)
    /\ Len(regResults) = 1 <=> pc = "mac_regwrite2"
    /\ Len(regResults) = 2 =>
          /\ macStatus = regResults[2]
          /\ pc \in {"mac_end", "enable", "returned"}
    /\ registry = IF \E i \in 1..Len(regResults) : NT_SUCCESS(regResults[i])
                  THEN macAddrStr ELSE ""
    /\ (MacReturned /\ engine = "Completed") =>
          /\ Len(regResults) = 2
          /\ bufState = "freed"
          /\ Count(EvFree) = 1
    /\ (pc = "returned" /\ engine = "Completed") => Count(EvEnable) = 1

\* The first write failed, the second succeeded: the query succeeded.
C15_Witness ==
    /\ pc = "returned"
    /\ regResults = <<STATUS_IO_TIMEOUT, STATUS_SUCCESS>>
    /\ macStatus = STATUS_SUCCESS
    /\ registry = "AABBCCDDEEFF"
    /\ bufState = "freed"

IsRegisterEvent(e) == e \in {EvDoorbell, EvStatus, EvRead}

\* The accesses to the mailbox registers, in order.
RegisterTrace == SelectSeq(trace, IsRegisterEvent)

\* C16: a query that submits makes one doorbell write, before any register
\* read; each poll sample is one read of Status followed by one read of
\* Read, and the outcome of the comparison depends on the Read value only.
C16_RegisterAccessOrder ==
    /\ Count(EvDoorbell) <= 1
    /\ engine \in {"Submitted", "Completed", "TimedOut", "Rejected"} =>
          Count(EvDoorbell) = 1
    /\ RegisterTrace =
          IF Count(EvDoorbell) = 0 THEN <<>>
          ELSE <<EvDoorbell>> \o Repeat(<<EvStatus, EvRead>>, polls)
    /\ polls >= 1 =>
          (samples[polls].match <=>
              /\ lastSample.read[1] = PeerAddress(addrProperty)[1]
              /\ lastSample.read[2] - (lastSample.read[2] % 16)
                    = PeerAddress(addrProperty)[2])

\* Three samples after the doorbell write, the third one matching.
C16_Witness ==
    /\ engine = "Completed"
    /\ pc = "returned"
    /\ RegisterTrace = <<EvDoorbell, EvStatus, EvRead, EvStatus, EvRead,
                         EvStatus, EvRead>>

\* The bits above the channel bits.
Upper28(v) == <<v[1], v[2] \div 16>>

\* C17: a sample matches exactly when the bits of the Read value above the
\* low four equal those of the submitted peer address, whatever its low
\* four bits are.
C17_ComparisonIgnoresChannelBits ==
    polls >= 1 =>
        (samples[polls].match <=>
            Upper28(lastSample.read) = Upper28(PeerAddress(addrProperty)))

\* A match on a Read value whose low four bits are all set.
C17_Witness ==
    /\ polls = 1
    /\ samples[1].match
    /\ lastSample.read[2] % 16 = 15
    /\ addrProperty = U32(4095, 61440)

\* a - b in 32 bits.
Sub32(a, b) ==
    LET lo == a[2] - b[2]
        borrow == IF lo < 0 THEN 1 ELSE 0
    IN  U32((a[1] - b[1] - borrow + Half) % Half, (lo + Half) % Half)

\* C18: for a buffer below 1 GiB the submitted peer address is the physical
\* address plus OFFSET_DIRECT_SDRAM with no carry out of 32 bits, it gives
\* the physical address back when the offset is subtracted, no other
\* physical address has the same peer address, and it is both the address
\* in the doorbell value and the address a matching sample was compared to.
C18_TranslationIsAdditiveBijection ==
    Count(EvDoorbell) = 1 =>
        LET h == addrProperty
            P == PeerAddress(h)
        IN  /\ h[1] < HEX_1_G[1]
            /\ P[1] = h[1] + OFFSET_DIRECT_SDRAM[1]
            /\ P[2] = h[2] + OFFSET_DIRECT_SDRAM[2]
            /\ P[1] < Half /\ P[2] < Half
            /\ Sub32(P, OFFSET_DIRECT_SDRAM) = h
            /\ \A g \in HostAddrs : g # h => PeerAddress(g) # P
            /\ Upper28(mailboxWrite) = Upper28(P)
            /\ mailboxWrite[2] % 16 = MAILBOX_CHANNEL_PROPERTY_ARM_VC
            /\ (polls >= 1 /\ samples[polls].match) =>
                  Upper28(lastSample.read) = Upper28(mailboxWrite)

\* The highest buffer address: 0x3FFFF000 is submitted as 0xFFFFF008.
C18_Witness ==
    /\ Count(EvDoorbell) = 1
    /\ addrProperty = U32(16383, 61440)
    /\ mailboxWrite = U32(65535, 61448)
    /\ polls = 1
    /\ samples[1].match

====
